---- MODULE Spec2Model ----
(***************************************************************************)
(* State-machine model of the contract DAOReputationPortabilityFHE         *)
(* (src/unnamed/part_000): roles, pause switch, cooldown gate, batch       *)
(* lifecycle, submission ledger, aggregation, decryption request and the   *)
(* oracle callback.  Every external entry point is one atomic action; a    *)
(* reverting call leaves the storage untouched, as the EVM guarantees.     *)
(***************************************************************************)
EXTENDS Integers, Naturals, Sequences, FiniteSets, TLC

(* ------------------------------------------------------------------ *)
(* Bounds of the model                                                 *)
(* ------------------------------------------------------------------ *)
MaxSubmissions == 2
MaxBatchId == 2
MaxRequestId == 1
StartTime == 59
MaxTime == 60

(* ------------------------------------------------------------------ *)
(* Program constants                                                   *)
(* ------------------------------------------------------------------ *)
DefaultCooldown == 60
FirstBatchId == 1
\* Integer widths are scaled to what the model checker's integers hold: uint256
\* is modelled with 31 bits and uint32 with 16 bits.  The code only adds, compares
\* and narrows these values, so only the order of the limits matters.
MaxUint256 == 2147483647
MaxUint32 == 65535

(* ------------------------------------------------------------------ *)
(* Input domains                                                       *)
(* ------------------------------------------------------------------ *)
Deployer == "alice"
Addr == {"alice", "bob"}
ZeroAddr == "0x0"
BatchIds == 0..(MaxBatchId + 1)
RequestIds == 0..MaxRequestId
\* values the owner passes to setCooldownSeconds
CooldownInputs == {1, MaxUint256}
\* a ciphertext handle (euint32 is a bytes32 handle); <<>> is the zero handle
ZeroHandle == <<>>
InputHandles == {ZeroHandle, <<"ct", 1>>}
\* the two 32-byte words of the oracle's cleartext payload
Payloads == {<<60, 20>>, <<MaxUint32 + 1, 0>>}
ZeroHash == <<>>

VARIABLES
    owner,
    isProvider,
    lastSubmissionTime,
    lastDecryptionRequestTime,
    cooldownSeconds,
    paused,
    batches,
    currentBatchId,
    submissions,
    decryptionContexts,
    requestCounter,
    requested,
    completed,
    now

vars == <<owner, isProvider, lastSubmissionTime, lastDecryptionRequestTime,
          cooldownSeconds, paused, batches, currentBatchId, submissions,
          decryptionContexts, requestCounter, requested, completed, now>>

\* the current state as one value; every entry point maps it to the state after the call
State ==
    [owner |-> owner, isProvider |-> isProvider,
     lastSubmissionTime |-> lastSubmissionTime,
     lastDecryptionRequestTime |-> lastDecryptionRequestTime,
     cooldownSeconds |-> cooldownSeconds, paused |-> paused,
     batches |-> batches, currentBatchId |-> currentBatchId,
     submissions |-> submissions, decryptionContexts |-> decryptionContexts,
     requestCounter |-> requestCounter, requested |-> requested,
     completed |-> completed, now |-> now]

\* the step that leads to state s
Apply(s) ==
    /\ owner' = s.owner
    /\ isProvider' = s.isProvider
    /\ lastSubmissionTime' = s.lastSubmissionTime
    /\ lastDecryptionRequestTime' = s.lastDecryptionRequestTime
    /\ cooldownSeconds' = s.cooldownSeconds
    /\ paused' = s.paused
    /\ batches' = s.batches
    /\ currentBatchId' = s.currentBatchId
    /\ submissions' = s.submissions
    /\ decryptionContexts' = s.decryptionContexts
    /\ requestCounter' = s.requestCounter
    /\ requested' = s.requested
    /\ completed' = s.completed
    /\ now' = s.now

EmptyBatchRecord == [batchId |-> 0, isOpen |-> FALSE, reputationSum |-> 0, submissionCount |-> 0]
EmptyContext == [batchId |-> 0, stateHash |-> ZeroHash, processed |-> FALSE]

(* ------------------------------------------------------------------ *)
(* Ciphertext capability (FHE library), kept symbolic                  *)
(* ------------------------------------------------------------------ *)
isInitialized(h) == h # ZeroHandle

asEuint32(n) == <<"trivial", n>>

\* FHE.add / FHE.mul encrypt a trivial zero for an uninitialized operand
FheAdd(a, b) ==
    <<"add", IF isInitialized(a) THEN a ELSE asEuint32(0),
             IF isInitialized(b) THEN b ELSE asEuint32(0)>>

FheMul(a, b) ==
    <<"mul", IF isInitialized(a) THEN a ELSE asEuint32(0),
             IF isInitialized(b) THEN b ELSE asEuint32(0)>>

FheInv(a) == <<"inv", a>>

toBytes32(h) == h

_hashCiphertexts(cts) == <<"keccak256", cts, "this">>

(* ------------------------------------------------------------------ *)
(* Modifiers                                                           *)
(* ------------------------------------------------------------------ *)
\* an owner gate that lets every caller through
onlyOwnerSkipped(caller) == "ok"

onlyOwner(caller) == IF caller # owner THEN "NotOwner" ELSE "ok"

\* a role gate that lets every caller through
onlyProviderSkipped(caller) == "ok"

onlyProvider(caller) == IF ~isProvider[caller] THEN "NotProvider" ELSE "ok"

\* a pause gate that never closes
whenNotPausedSkipped == "ok"

whenNotPaused == IF paused THEN "PausedState" ELSE "ok"

\* a cooldown gate that is off by one second (<= for <)
checkSubmissionCooldownOffByOne(p) ==
    IF cooldownSeconds > MaxUint256 - lastSubmissionTime[p] THEN "Panic"
    ELSE IF now <= lastSubmissionTime[p] + cooldownSeconds THEN "CooldownActive"
    ELSE "ok"

\* checked uint256 addition: an overflow is Panic(0x11)
checkSubmissionCooldown(p) ==
    IF cooldownSeconds > MaxUint256 - lastSubmissionTime[p] THEN "Panic"
    ELSE IF now < lastSubmissionTime[p] + cooldownSeconds THEN "CooldownActive"
    ELSE "ok"

checkDecryptionCooldown(p) ==
    IF cooldownSeconds > MaxUint256 - lastDecryptionRequestTime[p] THEN "Panic"
    ELSE IF now < lastDecryptionRequestTime[p] + cooldownSeconds THEN "CooldownActive"
    ELSE "ok"

\* the first failing check of a list of checks, in order
FirstError(checks) ==
    IF \E i \in 1..Len(checks) : checks[i] # "ok"
    THEN checks[CHOOSE i \in 1..Len(checks) :
                    /\ checks[i] # "ok"
                    /\ \A j \in 1..(i - 1) : checks[j] = "ok"]
    ELSE "ok"

Init ==
    /\ owner = Deployer
    /\ isProvider = [a \in Addr |-> a = Deployer]
    /\ lastSubmissionTime = [a \in Addr |-> 0]
    /\ lastDecryptionRequestTime = [a \in Addr |-> 0]
    /\ cooldownSeconds = DefaultCooldown
    /\ paused = FALSE
    /\ batches = [b \in BatchIds |-> EmptyBatchRecord]
    /\ currentBatchId = FirstBatchId
    /\ submissions = <<>>
    /\ decryptionContexts = [r \in RequestIds |-> EmptyContext]
    /\ requestCounter = 0
    /\ requested = <<>>
    /\ completed = <<>>
    /\ now = StartTime

(* ------------------------------------------------------------------ *)
(* Administration.  For every entry point f: fError is the outcome of  *)
(* its checks ("ok" or the revert), fCall the state after the call (a  *)
(* reverting call leaves the state as it was), f the step itself.      *)
(* ------------------------------------------------------------------ *)
transferOwnershipError(caller, newOwner) ==
    FirstError(<<onlyOwner(caller),
                 IF newOwner = ZeroAddr THEN "Error(New owner is the zero address)" ELSE "ok">>)

transferOwnershipCall(caller, newOwner) ==
    IF transferOwnershipError(caller, newOwner) = "ok"
    THEN [State EXCEPT !.owner = newOwner]
    ELSE State

transferOwnership(caller, newOwner) == Apply(transferOwnershipCall(caller, newOwner))

addProviderError(caller, provider) == onlyOwner(caller)

addProviderCall(caller, provider) ==
    IF addProviderError(caller, provider) = "ok" /\ ~isProvider[provider]
    THEN [State EXCEPT !.isProvider[provider] = TRUE]
    ELSE State

addProvider(caller, provider) == Apply(addProviderCall(caller, provider))

removeProviderError(caller, provider) == onlyOwner(caller)

removeProviderCall(caller, provider) ==
    IF removeProviderError(caller, provider) = "ok" /\ isProvider[provider]
    THEN [State EXCEPT !.isProvider[provider] = FALSE]
    ELSE State

removeProvider(caller, provider) == Apply(removeProviderCall(caller, provider))

\* a setCooldownSeconds that is closed while the contract is paused
setCooldownSecondsErrorWhenNotPaused(caller, newCooldownSeconds) ==
    FirstError(<<onlyOwner(caller), whenNotPaused>>)

setCooldownSecondsError(caller, newCooldownSeconds) == onlyOwner(caller)

setCooldownSecondsCall(caller, newCooldownSeconds) ==
    IF setCooldownSecondsError(caller, newCooldownSeconds) = "ok"
    THEN [State EXCEPT !.cooldownSeconds = newCooldownSeconds]
    ELSE State

setCooldownSeconds(caller, newCooldownSeconds) ==
    Apply(setCooldownSecondsCall(caller, newCooldownSeconds))

pauseError(caller) == FirstError(<<onlyOwner(caller), whenNotPaused>>)

pauseCall(caller) ==
    IF pauseError(caller) = "ok" THEN [State EXCEPT !.paused = TRUE] ELSE State

pause(caller) == Apply(pauseCall(caller))

unpauseError(caller) ==
    FirstError(<<onlyOwner(caller),
                 IF ~paused THEN "Error(Contract not paused)" ELSE "ok">>)

unpauseCall(caller) ==
    IF unpauseError(caller) = "ok" THEN [State EXCEPT !.paused = FALSE] ELSE State

unpause(caller) == Apply(unpauseCall(caller))

(* ------------------------------------------------------------------ *)
(* Batch lifecycle                                                     *)
(* ------------------------------------------------------------------ *)
openBatchError(caller) == FirstError(<<onlyOwner(caller), whenNotPaused>>)

\* an openBatch that also moves on to the next id
openBatchCallAdvancesId(caller) ==
    IF openBatchError(caller) = "ok"
    THEN [State EXCEPT !.batches[currentBatchId] =
                [batchId |-> currentBatchId, isOpen |-> TRUE,
                 reputationSum |-> 0, submissionCount |-> 0],
                       !.currentBatchId = currentBatchId + 1]
    ELSE State

openBatchCall(caller) ==
    IF openBatchError(caller) = "ok"
    THEN [State EXCEPT !.batches[currentBatchId] =
                [batchId |-> currentBatchId, isOpen |-> TRUE,
                 reputationSum |-> 0, submissionCount |-> 0]]
    ELSE State

openBatch(caller) == Apply(openBatchCall(caller))

\* a closeBatch that refuses a batch without submissions
closeBatchErrorNeedsSubmissions(caller) ==
    FirstError(<<onlyOwner(caller), whenNotPaused,
                 IF ~batches[currentBatchId].isOpen
                    \/ batches[currentBatchId].submissionCount = 0
                 THEN "InvalidBatch" ELSE "ok">>)

closeBatchError(caller) ==
    FirstError(<<onlyOwner(caller), whenNotPaused,
                 IF ~batches[currentBatchId].isOpen THEN "InvalidBatch" ELSE "ok">>)

\* a closeBatch that leaves currentBatchId where it is
closeBatchCallKeepsId(caller) ==
    IF closeBatchError(caller) = "ok"
    THEN [State EXCEPT !.batches[currentBatchId].isOpen = FALSE]
    ELSE State

\* a closeBatch that moves on to the next id and leaves the batch open
closeBatchCallLeavesOpen(caller) ==
    IF closeBatchError(caller) = "ok"
    THEN [State EXCEPT !.currentBatchId = currentBatchId + 1]
    ELSE State

closeBatchCall(caller) ==
    IF closeBatchError(caller) = "ok"
    THEN [State EXCEPT !.batches[currentBatchId].isOpen = FALSE,
                       !.currentBatchId = currentBatchId + 1]
    ELSE State

\* the model stops closing batches at MaxBatchId
closeBatch(caller) ==
    /\ currentBatchId < MaxBatchId \/ closeBatchError(caller) # "ok"
    /\ Apply(closeBatchCall(caller))

(* ------------------------------------------------------------------ *)
(* Submission ledger                                                   *)
(* ------------------------------------------------------------------ *)
\* a submit that does not look at the batch's isOpen flag
submitReputationErrorNoOpenCheck(caller, encryptedReputation) ==
    FirstError(<<onlyProvider(caller), whenNotPaused, checkSubmissionCooldown(caller),
                 IF ~isInitialized(encryptedReputation) THEN "NotInitialized" ELSE "ok">>)

submitReputationError(caller, encryptedReputation) ==
    FirstError(<<onlyProvider(caller), whenNotPaused, checkSubmissionCooldown(caller),
                 IF ~batches[currentBatchId].isOpen THEN "BatchNotOpen" ELSE "ok",
                 IF ~isInitialized(encryptedReputation) THEN "NotInitialized" ELSE "ok">>)

\* a submit that puts the new entry at the head of the ledger
submitReputationCallPrepend(caller, encryptedReputation) ==
    IF submitReputationError(caller, encryptedReputation) = "ok"
    THEN [State EXCEPT
            !.submissions = <<[encryptedReputation |-> encryptedReputation,
                               provider |-> caller,
                               batchId |-> currentBatchId]>> \o submissions,
            !.batches[currentBatchId].submissionCount = @ + 1,
            !.lastSubmissionTime[caller] = now]
    ELSE State

\* a submit that stamps the caller's submission time even when it reverts
submitReputationCallStampsOnRevert(caller, encryptedReputation) ==
    IF submitReputationError(caller, encryptedReputation) = "ok"
    THEN [State EXCEPT
            !.submissions = Append(submissions,
                                [encryptedReputation |-> encryptedReputation,
                                 provider |-> caller,
                                 batchId |-> currentBatchId]),
            !.batches[currentBatchId].submissionCount = @ + 1,
            !.lastSubmissionTime[caller] = now]
    ELSE [State EXCEPT !.lastSubmissionTime[caller] = now]

\* a submit that files the entry under the id before the current one
submitReputationCallPreviousBatch(caller, encryptedReputation) ==
    IF submitReputationError(caller, encryptedReputation) = "ok"
    THEN [State EXCEPT
            !.submissions = Append(submissions,
                                [encryptedReputation |-> encryptedReputation,
                                 provider |-> caller,
                                 batchId |-> currentBatchId - 1]),
            !.batches[currentBatchId].submissionCount = @ + 1,
            !.lastSubmissionTime[caller] = now]
    ELSE State

\* a submit that stamps both of the caller's cooldowns
submitReputationCallStampsBoth(caller, encryptedReputation) ==
    IF submitReputationError(caller, encryptedReputation) = "ok"
    THEN [State EXCEPT
            !.submissions = Append(submissions,
                                [encryptedReputation |-> encryptedReputation,
                                 provider |-> caller,
                                 batchId |-> currentBatchId]),
            !.batches[currentBatchId].submissionCount = @ + 1,
            !.lastSubmissionTime[caller] = now,
            !.lastDecryptionRequestTime[caller] = now]
    ELSE State

submitReputationCall(caller, encryptedReputation) ==
    IF submitReputationError(caller, encryptedReputation) = "ok"
    THEN [State EXCEPT
            !.submissions = Append(submissions,
                                [encryptedReputation |-> encryptedReputation,
                                 provider |-> caller,
                                 batchId |-> currentBatchId]),
            !.batches[currentBatchId].submissionCount = @ + 1,
            !.lastSubmissionTime[caller] = now]
    ELSE State

\* the model stops appending at MaxSubmissions entries
submitReputation(caller, encryptedReputation) ==
    /\ Len(submissions) < MaxSubmissions \/ submitReputationError(caller, encryptedReputation) # "ok"
    /\ Apply(submitReputationCall(caller, encryptedReputation))

(* ------------------------------------------------------------------ *)
(* Aggregation: the loop of requestBatchDecryption and of myCallback   *)
(* ------------------------------------------------------------------ *)
RECURSIVE FoldBatch(_, _, _, _)
\* acc = <<encryptedTotalReputation, initialized>> after entries 1..i-1
FoldBatch(subs, batchId, i, acc) ==
    IF i > Len(subs) THEN acc
    ELSE IF subs[i].batchId = batchId
         THEN IF ~acc[2]
              THEN FoldBatch(subs, batchId, i + 1, <<subs[i].encryptedReputation, TRUE>>)
              ELSE FoldBatch(subs, batchId, i + 1,
                             <<FheAdd(acc[1], subs[i].encryptedReputation), TRUE>>)
         ELSE FoldBatch(subs, batchId, i + 1, acc)

\* [initialized, cts] as the code builds them for batch batchId
Aggregate(subs, batchId, submissionCount) ==
    LET acc == FoldBatch(subs, batchId, 1, <<ZeroHandle, FALSE>>)
        encryptedTotalReputation == acc[1]
        encryptedAverageReputation ==
            FheMul(encryptedTotalReputation, FheInv(asEuint32(submissionCount)))
    IN  [initialized |-> acc[2],
         cts |-> <<toBytes32(encryptedTotalReputation), toBytes32(encryptedAverageReputation)>>]

(* ------------------------------------------------------------------ *)
(* Decryption request                                                  *)
(* ------------------------------------------------------------------ *)
\* a request that does not look at the batch's isOpen flag
requestBatchDecryptionErrorNoOpenCheck(caller, batchId) ==
    FirstError(<<onlyProvider(caller), whenNotPaused, checkDecryptionCooldown(caller),
                 IF batchId >= currentBatchId THEN "InvalidBatch" ELSE "ok",
                 IF batches[batchId].submissionCount = 0
                 THEN "Error(Batch has no submissions)" ELSE "ok",
                 IF ~Aggregate(submissions, batchId, batches[batchId].submissionCount).initialized
                 THEN "Error(No submissions found for batch)" ELSE "ok">>)

\* a request that accepts the current batch id (> for >=)
requestBatchDecryptionErrorAcceptsCurrent(caller, batchId) ==
    FirstError(<<onlyProvider(caller), whenNotPaused, checkDecryptionCooldown(caller),
                 IF batchId > currentBatchId \/ ~batches[batchId].isOpen
                 THEN "InvalidBatch" ELSE "ok",
                 IF batches[batchId].submissionCount = 0
                 THEN "Error(Batch has no submissions)" ELSE "ok",
                 IF ~Aggregate(submissions, batchId, batches[batchId].submissionCount).initialized
                 THEN "Error(No submissions found for batch)" ELSE "ok">>)

requestBatchDecryptionError(caller, batchId) ==
    FirstError(<<onlyProvider(caller), whenNotPaused, checkDecryptionCooldown(caller),
                 IF batchId >= currentBatchId \/ ~batches[batchId].isOpen
                 THEN "InvalidBatch" ELSE "ok",
                 IF batches[batchId].submissionCount = 0
                 THEN "Error(Batch has no submissions)" ELSE "ok",
                 IF ~Aggregate(submissions, batchId, batches[batchId].submissionCount).initialized
                 THEN "Error(No submissions found for batch)" ELSE "ok">>)

\* FHE.requestDecryption hands out request ids from a counter
requestBatchDecryptionCall(caller, batchId) ==
    IF requestBatchDecryptionError(caller, batchId) = "ok"
    THEN LET agg == Aggregate(submissions, batchId, batches[batchId].submissionCount)
             stateHash == _hashCiphertexts(agg.cts)
             requestId == requestCounter
         IN  [State EXCEPT
                !.decryptionContexts[requestId] =
                    [batchId |-> batchId, stateHash |-> stateHash, processed |-> FALSE],
                !.lastDecryptionRequestTime[caller] = now,
                !.requestCounter = requestCounter + 1,
                !.requested = Append(requested,
                    [requestId |-> requestId, batchId |-> batchId, cts |-> agg.cts])]
    ELSE State

\* the model stops handing out request ids at MaxRequestId
requestBatchDecryption(caller, batchId) ==
    /\ requestCounter <= MaxRequestId \/ requestBatchDecryptionError(caller, batchId) # "ok"
    /\ Apply(requestBatchDecryptionCall(caller, batchId))

(* ------------------------------------------------------------------ *)
(* Oracle callback                                                     *)
(* ------------------------------------------------------------------ *)
\* abi.decode of a 32-byte word as uint32 reverts on a word that does not fit
decodeUint32Error(word) == IF word > MaxUint32 THEN "Error(abi.decode)" ELSE "ok"

\* a callback that does not compare the recomputed digest with the stored one
myCallbackErrorNoHashCheck(requestId, cleartexts, proofOk) ==
    FirstError(<<IF decryptionContexts[requestId].processed THEN "ReplayAttempt" ELSE "ok",
                 IF ~proofOk THEN "InvalidProof" ELSE "ok",
                 decodeUint32Error(cleartexts[1]),
                 decodeUint32Error(cleartexts[2])>>)

myCallbackError(requestId, cleartexts, proofOk) ==
    LET ctx == decryptionContexts[requestId]
        agg == Aggregate(submissions, ctx.batchId, batches[ctx.batchId].submissionCount)
        currentHash == _hashCiphertexts(agg.cts)
    IN  FirstError(<<IF ctx.processed THEN "ReplayAttempt" ELSE "ok",
                     IF currentHash # ctx.stateHash THEN "StateMismatch" ELSE "ok",
                     IF ~proofOk THEN "InvalidProof" ELSE "ok",
                     decodeUint32Error(cleartexts[1]),
                     decodeUint32Error(cleartexts[2])>>)

myCallbackCall(requestId, cleartexts, proofOk) ==
    IF myCallbackError(requestId, cleartexts, proofOk) = "ok"
    THEN [State EXCEPT
            !.decryptionContexts[requestId].processed = TRUE,
            !.completed = Append(completed,
                [requestId |-> requestId,
                 batchId |-> decryptionContexts[requestId].batchId,
                 totalReputation |-> cleartexts[1],
                 averageReputation |-> cleartexts[2]])]
    ELSE State

myCallback(requestId, cleartexts, proofOk) ==
    Apply(myCallbackCall(requestId, cleartexts, proofOk))

(* ------------------------------------------------------------------ *)
(* block.timestamp                                                     *)
(* ------------------------------------------------------------------ *)
\* the instants just before and at the end of some caller's cooldown
CooldownEdges ==
    {s + cooldownSeconds - d :
        s \in {x \in {lastSubmissionTime[a] : a \in Addr}
                       \cup {lastDecryptionRequestTime[a] : a \in Addr} :
                    cooldownSeconds <= MaxTime - x},
        d \in {0, 1}}

Tick(t) ==
    /\ t > now
    /\ t <= MaxTime
    /\ Apply([State EXCEPT !.now = t])

Next ==
    \/ \E c \in Addr, n \in Addr \cup {ZeroAddr} : transferOwnership(c, n)
    \/ \E c \in Addr, p \in Addr : addProvider(c, p)
    \/ \E c \in Addr, p \in Addr : removeProvider(c, p)
    \/ \E c \in Addr, v \in CooldownInputs : setCooldownSeconds(c, v)
    \/ \E c \in Addr : pause(c)
    \/ \E c \in Addr : unpause(c)
    \/ \E c \in Addr : openBatch(c)
    \/ \E c \in Addr : closeBatch(c)
    \/ \E c \in Addr, h \in InputHandles : submitReputation(c, h)
    \/ \E c \in Addr, b \in BatchIds : requestBatchDecryption(c, b)
    \/ \E r \in RequestIds, w \in Payloads, ok \in BOOLEAN : myCallback(r, w, ok)
    \/ \E t \in CooldownEdges : Tick(t)

Spec == Init /\ [][Next]_vars

(* ================================================================== *)
(* Properties                                                          *)
(* ================================================================== *)
\* now >= lastSubmissionTime[c] + cooldownSeconds, over the unbounded integers
SubmissionCooldownElapsed(c) == cooldownSeconds <= now - lastSubmissionTime[c]

\* now >= lastDecryptionRequestTime[c] + cooldownSeconds, over the unbounded integers
DecryptionCooldownElapsed(c) == cooldownSeconds <= now - lastDecryptionRequestTime[c]

\* a provider whose disclosure request passes the role, pause and cooldown gates
MayRequest(c) == isProvider[c] /\ ~paused /\ DecryptionCooldownElapsed(c)

\* the ledger entries that reference batch b, by index
EntriesOf(subs, b) == {i \in 1..Len(subs) : subs[i].batchId = b}

(* C1: requestDisclosure(batchId) succeeds whenever the caller is an       *)
(* authorized provider, the system is not paused, the caller's request     *)
(* cooldown has elapsed, batchId is currentBatchId, and that batch is Open *)
(* with submissionCount > 0.                                               *)
C1_RequestOnOpenCurrentBatchSucceeds ==
    \A c \in Addr :
        (/\ MayRequest(c)
         /\ batches[currentBatchId].isOpen
         /\ batches[currentBatchId].submissionCount > 0)
        => requestBatchDecryptionError(c, currentBatchId) = "ok"

\* a provider whose submission passes the role and pause gates on an Open current batch
MaySubmitBarCooldown(c) == isProvider[c] /\ ~paused /\ batches[currentBatchId].isOpen

\* submit(c, h) leaves the ledger as it is
SubmitAppendsNothing(c, h) == submitReputationCall(c, h).submissions = submissions

(* C5 (as stated): for an authorized provider, unpaused, current batch     *)
(* Open, every submit at now = lastSubmissionAt + cooldownSeconds succeeds *)
(* and every submit at now = lastSubmissionAt + cooldownSeconds - 1 fails  *)
(* with CooldownActive and appends nothing.                                *)
C5_AnySubmitAtBoundarySucceeds ==
    \A c \in Addr, h \in InputHandles :
        MaySubmitBarCooldown(c) =>
            /\ (now - lastSubmissionTime[c] = cooldownSeconds)
                    => submitReputationError(c, h) = "ok"
            /\ (now - lastSubmissionTime[c] = cooldownSeconds - 1)
                    => /\ submitReputationError(c, h) = "CooldownActive"
                       /\ SubmitAppendsNothing(c, h)

(* C5 (amended): for an authorized provider, unpaused, current batch Open, *)
(* a submit of an initialized ciphertext at now = lastSubmissionAt +       *)
(* cooldownSeconds succeeds (one entry is appended), and any submit at     *)
(* now = lastSubmissionAt + cooldownSeconds - 1 fails with CooldownActive  *)
(* and appends nothing.                                                    *)
C5_CooldownBoundary ==
    \A c \in Addr, h \in InputHandles :
        MaySubmitBarCooldown(c) =>
            /\ (now - lastSubmissionTime[c] = cooldownSeconds /\ isInitialized(h))
                    => /\ submitReputationError(c, h) = "ok"
                       /\ Len(submitReputationCall(c, h).submissions) = Len(submissions) + 1
                       /\ submitReputationCall(c, h).lastSubmissionTime[c] = now
            /\ (now - lastSubmissionTime[c] = cooldownSeconds - 1)
                    => /\ submitReputationError(c, h) = "CooldownActive"
                       /\ SubmitAppendsNothing(c, h)

\* a provider that submitted before stands exactly at the end of its cooldown,
\* and another caller stands one second before the end of its own
C5_Witness ==
    /\ \E c \in Addr :
        /\ MaySubmitBarCooldown(c)
        /\ lastSubmissionTime[c] > 0
        /\ cooldownSeconds > 0
        /\ now - lastSubmissionTime[c] = cooldownSeconds
    /\ \E c \in Addr :
        /\ MaySubmitBarCooldown(c)
        /\ now - lastSubmissionTime[c] = cooldownSeconds - 1

\* the batch with id b was opened and has been closed
Closed(b) == batches[b].batchId = b /\ ~batches[b].isOpen

\* some batch has been closed and no batch has been opened since
AfterCloseBeforeOpen == currentBatchId > FirstBatchId /\ ~batches[currentBatchId].isOpen

C6_SubmitAfterCloseFails ==
    AfterCloseBeforeOpen =>
        \A c \in Addr, h \in InputHandles :
            (isProvider[c] /\ ~paused /\ SubmissionCooldownElapsed(c))
                => /\ submitReputationError(c, h) = "BatchNotOpen"
                   /\ SubmitAppendsNothing(c, h)

\* no step changes a closed batch's submissionCount or its ledger entries
C6_ClosedBatchFrozen ==
    \A b \in BatchIds :
        Closed(b) =>
            /\ batches'[b].submissionCount = batches[b].submissionCount
            /\ EntriesOf(submissions', b) = EntriesOf(submissions, b)

Unchanged(after) == after = State

(* C7: while paused, submit and requestDisclosure called by an authorized  *)
(* provider, and openBatch and closeBatch called by the owner, all fail    *)
(* with PausedState and change no state.                                   *)
C7_PausedBlocksProviderAndBatchCalls ==
    paused =>
        /\ \A c \in Addr :
            isProvider[c] =>
                /\ \A h \in InputHandles :
                    /\ submitReputationError(c, h) = "PausedState"
                    /\ Unchanged(submitReputationCall(c, h))
                /\ \A b \in BatchIds :
                    /\ requestBatchDecryptionError(c, b) = "PausedState"
                    /\ Unchanged(requestBatchDecryptionCall(c, b))
        /\ openBatchError(owner) = "PausedState"
        /\ Unchanged(openBatchCall(owner))
        /\ closeBatchError(owner) = "PausedState"
        /\ Unchanged(closeBatchCall(owner))

\* paused while the current batch is Open and holds a submission, with a
\* provider whose cooldowns have elapsed: only the pause stands in the way
C7_Witness ==
    /\ paused
    /\ batches[currentBatchId].isOpen
    /\ batches[currentBatchId].submissionCount > 0
    /\ Len(submissions) < MaxSubmissions
    /\ \E c \in Addr :
        isProvider[c] /\ SubmissionCooldownElapsed(c) /\ DecryptionCooldownElapsed(c)

\* the ledger length, the submission counts and the cooldown stamps of a state
Footprint(st) ==
    <<Len(st.submissions), [b \in BatchIds |-> st.batches[b].submissionCount],
      st.lastSubmissionTime, st.lastDecryptionRequestTime>>

(* C8: a submit or a requestDisclosure by a caller whose provider flag is  *)
(* false, a revoked provider included, fails with NotProvider and leaves   *)
(* the ledger length, the batches' submissionCount and the cooldown stamps *)
(* unchanged.                                                              *)
C8_NonProviderRejected ==
    \A c \in Addr :
        ~isProvider[c] =>
            /\ \A h \in InputHandles :
                /\ submitReputationError(c, h) = "NotProvider"
                /\ Footprint(submitReputationCall(c, h)) = Footprint(State)
            /\ \A b \in BatchIds :
                /\ requestBatchDecryptionError(c, b) = "NotProvider"
                /\ Footprint(requestBatchDecryptionCall(c, b)) = Footprint(State)

\* a provider that submitted was revoked; the batch is still Open, the system
\* is not paused and its cooldown has elapsed, so only the role gate stops it
C8_Witness ==
    \E c \in Addr :
        /\ ~isProvider[c]
        /\ lastSubmissionTime[c] > 0
        /\ ~paused
        /\ batches[currentBatchId].isOpen
        /\ Len(submissions) < MaxSubmissions
        /\ SubmissionCooldownElapsed(c)

(* C9: requestDisclosure(batchId) by an authorized, unpaused, off-cooldown *)
(* provider fails with InvalidBatch and creates no DecryptionContext       *)
(* whenever batchId differs from currentBatchId (an older closed id, a     *)
(* never-created id, id 0) or the batch with that id is not Open.          *)
C9_RequestOffCurrentOrNotOpenIsInvalidBatch ==
    \A c \in Addr, b \in BatchIds :
        (MayRequest(c) /\ (b # currentBatchId \/ ~batches[b].isOpen))
            => /\ requestBatchDecryptionError(c, b) = "InvalidBatch"
               /\ requestBatchDecryptionCall(c, b).decryptionContexts = decryptionContexts

\* an older, closed batch that holds a submission, and a provider past the
\* role, pause and cooldown gates to ask for its disclosure
C9_Witness ==
    \E c \in Addr, b \in BatchIds :
        /\ MayRequest(c)
        /\ b < currentBatchId
        /\ Closed(b)
        /\ batches[b].submissionCount > 0
        /\ EntriesOf(submissions, b) # {}
        /\ requestCounter <= MaxRequestId

\* the code's failure for a batch without submissions, the spec's EmptyBatch
EmptyBatch == "Error(Batch has no submissions)"

(* C10: requestDisclosure on the current Open batch whose submissionCount  *)
(* is 0 fails with the EmptyBatch error kind, which is distinct from       *)
(* InvalidBatch and from every other named error kind, and creates no      *)
(* DecryptionContext.                                                      *)
C10_RequestOnEmptyOpenBatchIsEmptyBatch ==
    \A c \in Addr :
        (/\ MayRequest(c)
         /\ batches[currentBatchId].isOpen
         /\ batches[currentBatchId].submissionCount = 0)
        => /\ requestBatchDecryptionError(c, currentBatchId) = EmptyBatch
           /\ requestBatchDecryptionError(c, currentBatchId) # "InvalidBatch"
           /\ requestBatchDecryptionCall(c, currentBatchId).decryptionContexts = decryptionContexts

\* the number of ledger entries that reference batch b
CountOf(subs, b) == Cardinality(EntriesOf(subs, b))

(* C11: in every reachable state and for every batch id, the batch's       *)
(* stored submissionCount equals the number of ledger Submissions whose    *)
(* batchId is that id.                                                     *)
C11_CountMatchesLedger ==
    \A b \in BatchIds : batches[b].submissionCount = CountOf(submissions, b)

\* the ledger entry a submit by c of handle h writes in this state
NewEntry(c, h) == [encryptedReputation |-> h, provider |-> c, batchId |-> currentBatchId]

\* no call other than submitReputation writes the ledger, whatever its inputs
C13_OnlySubmitWritesLedger ==
    /\ \A c \in Addr, n \in Addr \cup {ZeroAddr} :
            transferOwnershipCall(c, n).submissions = submissions
    /\ \A c \in Addr, p \in Addr :
            /\ addProviderCall(c, p).submissions = submissions
            /\ removeProviderCall(c, p).submissions = submissions
    /\ \A c \in Addr, v \in CooldownInputs :
            setCooldownSecondsCall(c, v).submissions = submissions
    /\ \A c \in Addr :
            /\ pauseCall(c).submissions = submissions
            /\ unpauseCall(c).submissions = submissions
            /\ openBatchCall(c).submissions = submissions
            /\ closeBatchCall(c).submissions = submissions
    /\ \A c \in Addr, b \in BatchIds :
            requestBatchDecryptionCall(c, b).submissions = submissions
    /\ \A r \in RequestIds, w \in Payloads, ok \in BOOLEAN :
            myCallbackCall(r, w, ok).submissions = submissions

\* a step keeps every entry where it is, and changes the ledger only as a
\* successful submit does: one entry more, at the end
C13_StepAppendsAtMostOne ==
    /\ Len(submissions') >= Len(submissions)
    /\ \A i \in 1..Len(submissions) : submissions'[i] = submissions[i]
    /\ submissions' # submissions =>
            \E c \in Addr, h \in InputHandles :
                /\ submitReputationError(c, h) = "ok"
                /\ submissions' = Append(submissions, NewEntry(c, h))

(* C13: the ledger is append-only: over every step its length never         *)
(* decreases, every existing entry keeps its index, ciphertext, submitter   *)
(* and batchId, and it changes only by a successful submitReputation, which *)
(* appends exactly one entry at the end.                                    *)
C13_LedgerAppendOnly == [] C13_OnlySubmitWritesLedger /\ [][C13_StepAppendsAtMostOne]_vars

\* two submits by different providers into different batches have happened
C13_Witness ==
    /\ Len(submissions) = 2
    /\ submissions[1].provider # submissions[2].provider
    /\ submissions[1].batchId # submissions[2].batchId

RejectedNotOwner(err, after) == err = "NotOwner" /\ Unchanged(after)

(* C15: transferOwnership, addProvider, removeProvider, setCooldownSeconds,  *)
(* pause, unpause, openBatch and closeBatch called by anyone other than the  *)
(* current owner (a provider, or the previous owner after a transfer) fail   *)
(* with NotOwner and change no state.                                        *)
C15_NonOwnerRejected ==
    \A c \in Addr \ {owner} :
        /\ \A n \in Addr \cup {ZeroAddr} :
                RejectedNotOwner(transferOwnershipError(c, n), transferOwnershipCall(c, n))
        /\ \A p \in Addr :
                /\ RejectedNotOwner(addProviderError(c, p), addProviderCall(c, p))
                /\ RejectedNotOwner(removeProviderError(c, p), removeProviderCall(c, p))
        /\ \A v \in CooldownInputs :
                RejectedNotOwner(setCooldownSecondsError(c, v), setCooldownSecondsCall(c, v))
        /\ RejectedNotOwner(pauseError(c), pauseCall(c))
        /\ RejectedNotOwner(unpauseError(c), unpauseCall(c))
        /\ RejectedNotOwner(openBatchError(c), openBatchCall(c))
        /\ RejectedNotOwner(closeBatchError(c), closeBatchCall(c))

\* ownership has been transferred, and the previous owner is still a provider
C15_Witness ==
    /\ owner # Deployer
    /\ isProvider[Deployer]
    /\ paused
    /\ pauseError(Deployer) = "NotOwner"
    /\ unpauseError(Deployer) = "NotOwner"

\* while paused no call other than unpause changes the state
C16_PausedOnlyUnpauseChangesState ==
    paused =>
        /\ \A c \in Addr, n \in Addr \cup {ZeroAddr} : Unchanged(transferOwnershipCall(c, n))
        /\ \A c \in Addr, p \in Addr :
                Unchanged(addProviderCall(c, p)) /\ Unchanged(removeProviderCall(c, p))
        /\ \A c \in Addr, v \in CooldownInputs : Unchanged(setCooldownSecondsCall(c, v))
        /\ \A c \in Addr : Unchanged(pauseCall(c))
        /\ \A c \in Addr : Unchanged(openBatchCall(c)) /\ Unchanged(closeBatchCall(c))
        /\ \A c \in Addr, h \in InputHandles : Unchanged(submitReputationCall(c, h))
        /\ \A c \in Addr, b \in BatchIds : Unchanged(requestBatchDecryptionCall(c, b))
        /\ \A r \in RequestIds, w \in Payloads, ok \in BOOLEAN :
                Unchanged(myCallbackCall(r, w, ok))

\* the call failed at its role gate or at the pause gate and changed nothing
RejectedAtGate(err, after) == err \in {"NotOwner", "NotProvider", "PausedState"} /\ Unchanged(after)

(* C16: while paused, submitReputation, requestBatchDecryption, openBatch,   *)
(* closeBatch and pause fail and change nothing; the owner's                 *)
(* transferOwnership, addProvider, removeProvider and setCooldownSeconds     *)
(* have no pause gate and take effect as they do when not paused, unpause    *)
(* by the owner lifts the pause, and myCallback never fails with             *)
(* PausedState.                                                              *)
C16_PauseGatesEntryPointsNotAdministration ==
    paused =>
        /\ \A c \in Addr : RejectedAtGate(pauseError(c), pauseCall(c))
        /\ \A c \in Addr : RejectedAtGate(openBatchError(c), openBatchCall(c))
        /\ \A c \in Addr : RejectedAtGate(closeBatchError(c), closeBatchCall(c))
        /\ \A c \in Addr, h \in InputHandles :
                RejectedAtGate(submitReputationError(c, h), submitReputationCall(c, h))
        /\ \A c \in Addr, b \in BatchIds :
                RejectedAtGate(requestBatchDecryptionError(c, b),
                               requestBatchDecryptionCall(c, b))
        /\ \A n \in Addr :
                /\ transferOwnershipError(owner, n) = "ok"
                /\ transferOwnershipCall(owner, n) = [State EXCEPT !.owner = n]
        /\ \A p \in Addr :
                /\ addProviderError(owner, p) = "ok"
                /\ addProviderCall(owner, p) = [State EXCEPT !.isProvider[p] = TRUE]
                /\ removeProviderError(owner, p) = "ok"
                /\ removeProviderCall(owner, p) = [State EXCEPT !.isProvider[p] = FALSE]
        /\ \A v \in CooldownInputs :
                /\ setCooldownSecondsError(owner, v) = "ok"
                /\ setCooldownSecondsCall(owner, v) = [State EXCEPT !.cooldownSeconds = v]
        /\ unpauseError(owner) = "ok"
        /\ unpauseCall(owner) = [State EXCEPT !.paused = FALSE]
        /\ \A r \in RequestIds, w \in Payloads, ok \in BOOLEAN :
                myCallbackError(r, w, ok) # "PausedState"

\* paused, with a provider whose submit only the pause stops, and with
\* administration that changes the state at hand
C16_Witness ==
    /\ paused
    /\ \E c \in Addr :
            /\ isProvider[c]
            /\ batches[currentBatchId].isOpen
            /\ SubmissionCooldownElapsed(c)
            /\ submitReputationError(c, <<"ct", 1>>) = "PausedState"
    /\ \E p \in Addr : ~isProvider[p]
    /\ owner # Deployer
    /\ cooldownSeconds # DefaultCooldown

\* no requestBatchDecryption has returned request id r
UnknownRequest(r) == r >= requestCounter

\* the callback finalised nothing: no context processed, no event
NothingFinalised(after) ==
    /\ after.completed = completed
    /\ \A r \in RequestIds : ~after.decryptionContexts[r].processed

\* a callback for an unknown request id fails with an error kind of its own
C17_UnknownRequestHasOwnErrorKind ==
    \A r \in RequestIds, w \in Payloads, ok \in BOOLEAN :
        UnknownRequest(r) =>
            /\ myCallbackError(r, w, ok)
                    \notin {"ok", "ReplayAttempt", "StateMismatch", "InvalidProof",
                            "Error(abi.decode)"}
            /\ Unchanged(myCallbackCall(r, w, ok))

(* C17: a myCallback whose requestId no requestBatchDecryption has returned  *)
(* fails with StateMismatch (the digest recomputed for the default context   *)
(* is never the zero digest stored there), finalises nothing and leaves the  *)
(* state unchanged.                                                          *)
C17_UnknownRequestIsStateMismatch ==
    \A r \in RequestIds, w \in Payloads, ok \in BOOLEAN :
        UnknownRequest(r) =>
            /\ myCallbackError(r, w, ok) = "StateMismatch"
            /\ NothingFinalised(myCallbackCall(r, w, ok))
            /\ Unchanged(myCallbackCall(r, w, ok))

\* a well-formed, authentic callback for an unknown id, with a full ledger
C17_Witness ==
    /\ Len(submissions) = MaxSubmissions
    /\ \E r \in RequestIds :
            /\ UnknownRequest(r)
            /\ decodeUint32Error(60) = "ok"
            /\ myCallbackError(r, <<60, 20>>, TRUE) = "StateMismatch"

\* batch id b has been opened at some time: openBatch wrote its record
Opened(b) == batches[b].isOpen \/ batches[b].batchId = b \/ batches[b].submissionCount > 0

(* C19: every successful openBatch creates its batch under an id that has    *)
(* never been opened before, Open and with submissionCount 0, and leaves the *)
(* record of every batch that already exists as it is.                       *)
C19_OpenBatchCreatesFreshBatch ==
    \A c \in Addr :
        openBatchError(c) = "ok" =>
            /\ ~Opened(currentBatchId)
            /\ openBatchCall(c).batches[currentBatchId].isOpen
            /\ openBatchCall(c).batches[currentBatchId].submissionCount = 0
            /\ \A b \in BatchIds : Opened(b) => openBatchCall(c).batches[b] = batches[b]

(* C20: over every step and for every batch id, the stored submissionCount   *)
(* does not decrease.                                                        *)
C20_SubmissionCountMonotone ==
    [][\A b \in BatchIds : batches'[b].submissionCount >= batches[b].submissionCount]_vars

(* C21: closeBatch by the owner while not paused succeeds exactly when the   *)
(* current batch is open, whatever its submissionCount, and otherwise fails  *)
(* with InvalidBatch; on success it closes that batch, raises currentBatchId *)
(* by one and changes nothing else, and the new current id is not open.      *)
C21_CloseBatchByOwner ==
    ~paused =>
        LET after == closeBatchCall(owner)
        IN  IF batches[currentBatchId].isOpen
            THEN /\ closeBatchError(owner) = "ok"
                 /\ after = [State EXCEPT !.batches[currentBatchId].isOpen = FALSE,
                                          !.currentBatchId = currentBatchId + 1]
                 /\ ~after.batches[after.currentBatchId].isOpen
            ELSE /\ closeBatchError(owner) = "InvalidBatch"
                 /\ Unchanged(after)

\* a batch without submissions has been closed, and a second closeBatch in a
\* row is refused
C21_Witness ==
    /\ ~paused
    /\ currentBatchId = FirstBatchId + 1
    /\ Closed(FirstBatchId)
    /\ batches[FirstBatchId].submissionCount = 0
    /\ closeBatchError(owner) = "InvalidBatch"

\* the states that one call of an entry point, by any caller and with any
\* input, leaves behind
CallResults ==
    {transferOwnershipCall(c, n) : c \in Addr, n \in Addr \cup {ZeroAddr}}
    \cup {addProviderCall(c, p) : c \in Addr, p \in Addr}
    \cup {removeProviderCall(c, p) : c \in Addr, p \in Addr}
    \cup {setCooldownSecondsCall(c, v) : c \in Addr, v \in CooldownInputs}
    \cup {pauseCall(c) : c \in Addr}
    \cup {unpauseCall(c) : c \in Addr}
    \cup {openBatchCall(c) : c \in Addr}
    \cup {closeBatchCall(c) : c \in Addr}
    \cup {submitReputationCall(c, h) : c \in Addr, h \in InputHandles}
    \cup {requestBatchDecryptionCall(c, b) : c \in Addr, b \in BatchIds}
    \cup {myCallbackCall(r, w, ok) : r \in RequestIds, w \in Payloads, ok \in BOOLEAN}

(* C22: once a batch id has been closed, no call of any entry point opens it *)
(* again or changes its record.                                              *)
C22_ClosedIsTerminal ==
    \A b \in BatchIds :
        Closed(b) => \A after \in CallResults : after.batches[b] = batches[b]

\* batch 1 was closed with a submission in it, batch 2 has been opened and
\* has taken a submission since
C22_Witness ==
    /\ Closed(FirstBatchId)
    /\ batches[FirstBatchId].submissionCount = 1
    /\ batches[FirstBatchId + 1].isOpen
    /\ batches[FirstBatchId + 1].submissionCount = 1

\* the states that one call of an entry point other than closeBatch leaves
OtherThanCloseBatch ==
    {transferOwnershipCall(c, n) : c \in Addr, n \in Addr \cup {ZeroAddr}}
    \cup {addProviderCall(c, p) : c \in Addr, p \in Addr}
    \cup {removeProviderCall(c, p) : c \in Addr, p \in Addr}
    \cup {setCooldownSecondsCall(c, v) : c \in Addr, v \in CooldownInputs}
    \cup {pauseCall(c) : c \in Addr}
    \cup {unpauseCall(c) : c \in Addr}
    \cup {openBatchCall(c) : c \in Addr}
    \cup {submitReputationCall(c, h) : c \in Addr, h \in InputHandles}
    \cup {requestBatchDecryptionCall(c, b) : c \in Addr, b \in BatchIds}
    \cup {myCallbackCall(r, w, ok) : r \in RequestIds, w \in Payloads, ok \in BOOLEAN}

(* C23: currentBatchId is 1 plus the number of batches closed so far (so it  *)
(* starts at 1); only a successful closeBatch changes it, by exactly +1, and *)
(* no other call and no failing closeBatch changes it.                       *)
C23_CurrentBatchIdCountsCloses ==
    /\ currentBatchId = FirstBatchId
                        + Cardinality({b \in BatchIds : b >= FirstBatchId /\ Closed(b)})
    /\ \A after \in OtherThanCloseBatch : after.currentBatchId = currentBatchId
    /\ \A c \in Addr :
            closeBatchCall(c).currentBatchId =
                IF closeBatchError(c) = "ok" THEN currentBatchId + 1 ELSE currentBatchId

\* one closeBatch has happened, and the next batch was opened by a new owner
C23_Witness ==
    /\ currentBatchId = FirstBatchId + 1
    /\ batches[currentBatchId].isOpen
    /\ owner # Deployer

\* the last entry of a ledger
LastEntry(subs) == subs[Len(subs)]

(* C24: a successful submitReputation files its entry under the current     *)
(* batch id, and that batch is open at that moment; so in every reachable    *)
(* state every entry's batchId lies between 1 and currentBatchId, names a    *)
(* batch that was opened, and batchIds do not decrease along the ledger.     *)
C24_EntriesNameTheBatchOpenAtInsertion ==
    /\ \A c \in Addr, h \in InputHandles :
            submitReputationError(c, h) = "ok" =>
                /\ batches[currentBatchId].isOpen
                /\ LastEntry(submitReputationCall(c, h).submissions).batchId = currentBatchId
    /\ \A i \in 1..Len(submissions) :
            /\ submissions[i].batchId \in FirstBatchId..currentBatchId
            /\ batches[submissions[i].batchId].batchId = submissions[i].batchId
    /\ \A i, j \in 1..Len(submissions) :
            i < j => submissions[i].batchId <= submissions[j].batchId

\* the ledger holds an entry of the first batch and then one of a later,
\* current batch
C24_Witness ==
    /\ Len(submissions) = 2
    /\ submissions[1].batchId = FirstBatchId
    /\ submissions[2].batchId = currentBatchId
    /\ currentBatchId > FirstBatchId

\* the handles of the ledger entries of batch b, in ledger order
HandlesOf(subs, b) ==
    LET m == SelectSeq(subs, LAMBDA e : e.batchId = b)
    IN  [i \in 1..Len(m) |-> m[i].encryptedReputation]

RECURSIVE SumLeft(_)
\* the left-to-right homomorphic sum of a non-empty sequence of handles,
\* seeded with its first element
SumLeft(hs) ==
    IF Len(hs) = 1 THEN hs[1]
    ELSE FheAdd(SumLeft(SubSeq(hs, 1, Len(hs) - 1)), hs[Len(hs)])

NeitherSubmitNorRequest ==
    {transferOwnershipCall(c, n) : c \in Addr, n \in Addr \cup {ZeroAddr}}
    \cup {addProviderCall(c, p) : c \in Addr, p \in Addr}
    \cup {removeProviderCall(c, p) : c \in Addr, p \in Addr}
    \cup {setCooldownSecondsCall(c, v) : c \in Addr, v \in CooldownInputs}
    \cup {pauseCall(c) : c \in Addr}
    \cup {unpauseCall(c) : c \in Addr}
    \cup {openBatchCall(c) : c \in Addr}
    \cup {closeBatchCall(c) : c \in Addr}
    \cup {myCallbackCall(r, w, ok) : r \in RequestIds, w \in Payloads, ok \in BOOLEAN}

\* stamps new differs from stamps old at most at caller c, and is not lower there
OnlyCallersStampMoves(old, new, c) ==
    /\ \A a \in Addr \ {c} : new[a] = old[a]
    /\ new[c] >= old[c]

(* C28: cooldown stamps are kept per caller and per kind of action: a submit *)
(* writes only the caller's lastSubmissionTime, a decryption request only    *)
(* the caller's lastDecryptionRequestTime, no other call writes either, and  *)
(* no stamp is ever lowered or ahead of the clock.                           *)
C28_CooldownStampsIndependent ==
    /\ \A c \in Addr, h \in InputHandles :
            LET after == submitReputationCall(c, h)
            IN  /\ OnlyCallersStampMoves(lastSubmissionTime, after.lastSubmissionTime, c)
                /\ after.lastDecryptionRequestTime = lastDecryptionRequestTime
                /\ submitReputationError(c, h) = "ok" => after.lastSubmissionTime[c] = now
    /\ \A c \in Addr, b \in BatchIds :
            LET after == requestBatchDecryptionCall(c, b)
            IN  /\ OnlyCallersStampMoves(lastDecryptionRequestTime,
                                         after.lastDecryptionRequestTime, c)
                /\ after.lastSubmissionTime = lastSubmissionTime
    /\ \A after \in NeitherSubmitNorRequest :
            /\ after.lastSubmissionTime = lastSubmissionTime
            /\ after.lastDecryptionRequestTime = lastDecryptionRequestTime
    /\ \A a \in Addr : lastSubmissionTime[a] <= now /\ lastDecryptionRequestTime[a] <= now

\* one provider has just submitted and is in its submission cooldown, while
\* its decryption cooldown and the other provider's submission cooldown are over
C28_Witness ==
    \E c \in Addr, d \in Addr :
        /\ c # d
        /\ isProvider[c] /\ isProvider[d]
        /\ lastSubmissionTime[c] = now
        /\ checkSubmissionCooldown(c) = "CooldownActive"
        /\ checkDecryptionCooldown(c) = "ok"
        /\ checkSubmissionCooldown(d) = "ok"

(* C29: for every cooldownSeconds the owner can set and every time stamp,    *)
(* the cooldown gate of a submit or a decryption request by a provider,      *)
(* while not paused, either admits the call or rejects it with               *)
(* CooldownActive; stamp + cooldownSeconds never fails as arithmetic.        *)
C29_CooldownGateNeverOverflows ==
    \A c \in Addr :
        isProvider[c] /\ ~paused =>
            /\ checkSubmissionCooldown(c) \in {"ok", "CooldownActive"}
            /\ checkDecryptionCooldown(c) \in {"ok", "CooldownActive"}
            /\ \A h \in InputHandles : submitReputationError(c, h) # "Panic"
            /\ \A b \in BatchIds : requestBatchDecryptionError(c, b) # "Panic"

(* C30: in every reachable state only the batch with id currentBatchId can   *)
(* be open (so at most one batch is), every id from 1 up to but excluding    *)
(* currentBatchId is closed, and no record exists for id 0 or for any id     *)
(* above currentBatchId.                                                     *)
C30_OnlyCurrentBatchCanBeOpen ==
    /\ \A b \in BatchIds : batches[b].isOpen => b = currentBatchId
    /\ \A b \in BatchIds : FirstBatchId <= b /\ b < currentBatchId => Closed(b)
    /\ \A b \in BatchIds : b < FirstBatchId \/ b > currentBatchId => batches[b] = EmptyBatchRecord

\* a closed batch below, an open current batch, and nothing above it
C30_Witness ==
    /\ currentBatchId > FirstBatchId
    /\ batches[currentBatchId].isOpen
    /\ batches[currentBatchId].submissionCount > 0
    /\ \E b \in BatchIds : b > currentBatchId

(* C31: in every reachable state requestBatchDecryption reverts for every    *)
(* caller and batch id, because no batch below currentBatchId is open; so no *)
(* DecryptionContext is ever stored, none is ever processed, no myCallback   *)
(* succeeds, and neither DecryptionRequested nor DecryptionCompleted is ever *)
(* emitted.                                                                  *)
C31_NoRequestEverSucceeds ==
    /\ \A b \in BatchIds : ~(b < currentBatchId /\ batches[b].isOpen)
    /\ \A c \in Addr, b \in BatchIds : requestBatchDecryptionError(c, b) # "ok"
    /\ \A r \in RequestIds, w \in Payloads, ok \in BOOLEAN : myCallbackError(r, w, ok) # "ok"
    /\ \A r \in RequestIds : decryptionContexts[r] = EmptyContext
    /\ requestCounter = 0
    /\ requested = <<>>
    /\ completed = <<>>

\* a provider past the role, pause and cooldown gates, with submissions in a
\* closed batch and in the open current batch, is refused on both
C31_Witness ==
    \E c \in Addr :
        /\ isProvider[c] /\ ~paused /\ checkDecryptionCooldown(c) = "ok"
        /\ currentBatchId > FirstBatchId
        /\ batches[FirstBatchId].submissionCount > 0
        /\ batches[currentBatchId].isOpen
        /\ batches[currentBatchId].submissionCount > 0
        /\ requestBatchDecryptionError(c, FirstBatchId) = "InvalidBatch"
        /\ requestBatchDecryptionError(c, currentBatchId) = "InvalidBatch"

====
